---- MODULE Spec2Model ----
(***************************************************************************)
(* PCB Thermal Toolkit: the Electron shell (electron/main.cjs) and the     *)
(* three calculators of the React component PcbThermalToolkit that the     *)
(* shell's window hosts.                                                   *)
(*                                                                         *)
(* JavaScript numbers are modelled as extended reals: NaN, +Infinity,      *)
(* -Infinity, zero, or a signed nonzero real kept in factored form         *)
(*     s * PROD p^(e[p]/U)                                                 *)
(* over the primes p (and the generator 0, which stands for Math.PI).      *)
(* Multiplication, division and Math.pow with a rational exponent are      *)
(* exact in this form; addition is exact on rationals.  IEEE-754 rounding, *)
(* overflow beyond 1.8e308, underflow and the sign of zero are abstracted. *)
(***************************************************************************)
EXTENDS Integers, Sequences, FiniteSets, TLC

\* ------------------------------------------------------------------------
\* Bounds of the model
\* ------------------------------------------------------------------------
MaxDirty == 2    \* Spec: at most this many fields of a window differ from the defaults
MaxAmps == 3     \* currents 1..MaxAmps are compared with the form's current
MaxRise == 2     \* temperature rises 10, ..., 10 * MaxRise likewise
MaxVias == 3     \* via counts 1..MaxVias likewise

\* ------------------------------------------------------------------------
\* Numbers
\* ------------------------------------------------------------------------
\* Exponents are kept in units of 1/U; 25 and 29 are the denominators that
\* Math.pow(x, 0.44) and Math.pow(x, 1/0.725) introduce (11/25 and 40/29).
U == 25 * 29

EmptyVec == [p \in {} |-> 0]

VGet(v, p) == IF p \in DOMAIN v THEN v[p] ELSE 0

VNorm(f) == [p \in {q \in DOMAIN f : f[q] # 0} |-> f[p]]

VAdd(a, b) == VNorm([p \in (DOMAIN a) \cup (DOMAIN b) |-> VGet(a, p) + VGet(b, p)])

VNeg(a) == [p \in DOMAIN a |-> 0 - a[p]]

VScale(a, n, d) == [p \in DOMAIN a |-> (a[p] * n) \div d]

RECURSIVE FactorFrom(_, _)
FactorFrom(n, p) ==
  IF n = 1 THEN EmptyVec
  ELSE IF p * p > n THEN (n :> U)
  ELSE IF n % p = 0 THEN VAdd((p :> U), FactorFrom(n \div p, p))
  ELSE FactorFrom(n, p + 1)

RECURSIVE IntPow(_, _)
IntPow(b, n) == IF n = 0 THEN 1 ELSE b * IntPow(b, n - 1)

RECURSIVE VProd(_, _)
VProd(v, S) ==
  IF S = {} THEN 1
  ELSE LET p == CHOOSE x \in S : TRUE
       IN IntPow(p, v[p] \div U) * VProd(v, S \ {p})

\* The integer a vector of non-negative whole exponents stands for.
VToInt(v) == VProd(v, DOMAIN v)

NaN == [k |-> "nan", s |-> 0, e |-> EmptyVec]

Inf(sgn) == [k |-> "inf", s |-> sgn, e |-> EmptyVec]

Zero == [k |-> "fin", s |-> 0, e |-> EmptyVec]

Fin(sgn, vec) == [k |-> "fin", s |-> sgn, e |-> vec]

FromInt(n) ==
  IF n = 0 THEN Zero
  ELSE IF n < 0 THEN Fin(0 - 1, FactorFrom(0 - n, 2))
  ELSE Fin(1, FactorFrom(n, 2))

IsNaN(x) == x.k = "nan"

IsFinite(x) == x.k = "fin"

IsZero(x) == x.k = "fin" /\ x.s = 0

\* x * y
Mul(x, y) ==
  IF IsNaN(x) \/ IsNaN(y) THEN NaN
  ELSE IF x.k = "inf" \/ y.k = "inf"
    THEN (IF x.s = 0 \/ y.s = 0 THEN NaN ELSE Inf(x.s * y.s))
  ELSE IF x.s = 0 \/ y.s = 0 THEN Zero
  ELSE Fin(x.s * y.s, VAdd(x.e, y.e))

\* x / y
Div(x, y) ==
  IF IsNaN(x) \/ IsNaN(y) THEN NaN
  ELSE IF x.k = "inf"
    THEN (IF y.k = "inf" THEN NaN ELSE Inf(IF y.s = 0 THEN x.s ELSE x.s * y.s))
  ELSE IF y.k = "inf" THEN Zero
  ELSE IF y.s = 0 THEN (IF x.s = 0 THEN NaN ELSE Inf(x.s))
  ELSE IF x.s = 0 THEN Zero
  ELSE Fin(x.s * y.s, VAdd(x.e, VNeg(y.e)))

Neg(x) == [x EXCEPT !.s = 0 - x.s]

\* The largest common factor of two rationals with whole exponents.
VCommon(a, b) ==
  VNorm([p \in (DOMAIN a) \cup (DOMAIN b) |->
           LET m == IF VGet(a, p) < VGet(b, p) THEN VGet(a, p) ELSE VGet(b, p)
           IN IF m < 0 THEN 0 - U * (((0 - m) + U - 1) \div U) ELSE U * (m \div U)])

\* x + y
Add(x, y) ==
  IF IsNaN(x) \/ IsNaN(y) THEN NaN
  ELSE IF x.k = "inf"
    THEN (IF y.k = "inf" /\ y.s # x.s THEN NaN ELSE x)
  ELSE IF y.k = "inf" THEN y
  ELSE IF x.s = 0 THEN y
  ELSE IF y.s = 0 THEN x
  ELSE LET g == VCommon(x.e, y.e)
           n == x.s * VToInt(VAdd(x.e, VNeg(g))) + y.s * VToInt(VAdd(y.e, VNeg(g)))
       IN Mul(FromInt(n), Fin(1, g))

\* x - y
Sub(x, y) == Add(x, Neg(y))

\* Numerator and denominator of a positive rational.
Numer(y) == VToInt([p \in {q \in DOMAIN y.e : y.e[q] > 0} |-> y.e[p]])

Denom(y) == VToInt([p \in {q \in DOMAIN y.e : y.e[q] < 0} |-> 0 - y.e[p]])

\* Math.pow(x, y) for a finite y > 0 that is not an integer (0.44 and 1/0.725
\* are the only exponents the program uses): NaN for NaN and for x < 0,
\* 0 for 0, +Infinity for both infinities.
Pow(x, y) ==
  IF IsNaN(x) \/ IsNaN(y) THEN NaN
  ELSE IF x.k = "inf" THEN Inf(1)
  ELSE IF x.s = 0 THEN Zero
  ELSE IF x.s < 0 THEN NaN
  ELSE Fin(1, VNorm(VScale(x.e, Numer(y), Denom(y))))

\* x ?? y in place of x || y
OrElseNullish(x, y) == x

\* x === 0 ? y : x in place of x || y
OrElseZeroOnly(x, y) == IF IsZero(x) THEN y ELSE x

\* x || y : x unless x is falsy (0 or NaN)
OrElse(x, y) == IF IsNaN(x) \/ IsZero(x) THEN y ELSE x

\* Object.is(x, y), the comparison of useMemo's dependencies
SameValue(x, y) == x = y

\* The decimal literal m * 10^e10
Dec(m, e10) == Mul(FromInt(m), Fin(1, VNorm([p \in {2, 5} |-> e10 * U])))

\* Math.PI, the generator 0
PI == Fin(1, (0 :> U))

\* Natural logarithms of the generators, times 10^4, rounded.
LnTab ==
  (0 :> 11447) @@ (2 :> 6931) @@ (3 :> 10986) @@ (5 :> 16094) @@ (7 :> 19459)
  @@ (11 :> 23979) @@ (13 :> 25649) @@ (17 :> 28332) @@ (19 :> 29444)
  @@ (23 :> 31355) @@ (29 :> 33673) @@ (31 :> 34340) @@ (37 :> 36109)
  @@ (41 :> 37136) @@ (43 :> 37612) @@ (47 :> 38501) @@ (53 :> 39703)
  @@ (59 :> 40775) @@ (61 :> 41109) @@ (67 :> 42047) @@ (71 :> 42627)
  @@ (73 :> 42905) @@ (79 :> 43694) @@ (83 :> 44188) @@ (89 :> 44886)
  @@ (97 :> 45747) @@ (101 :> 46151) @@ (103 :> 46347) @@ (107 :> 46728)
  @@ (109 :> 46913) @@ (113 :> 47274) @@ (127 :> 48442) @@ (131 :> 48752)
  @@ (137 :> 49200) @@ (139 :> 49345)

RECURSIVE VLog(_, _)
VLog(v, S) ==
  IF S = {} THEN 0
  ELSE LET p == CHOOSE x \in S : TRUE
       IN v[p] * LnTab[p] + VLog(v, S \ {p})

RECURSIVE VErr(_, _)
VErr(v, S) ==
  IF S = {} THEN 0
  ELSE LET p == CHOOSE x \in S : TRUE
       IN (IF v[p] < 0 THEN 0 - v[p] ELSE v[p]) + VErr(v, S \ {p})

\* a < b for positive reals: the logarithm of b/a exceeds the table's
\* rounding error, so a TRUE answer is exact.
VLess(a, b) ==
  LET d == VAdd(b, VNeg(a))
  IN VLog(d, DOMAIN d) > VErr(d, DOMAIN d)

\* x < y
Less(x, y) ==
  IF IsNaN(x) \/ IsNaN(y) THEN FALSE
  ELSE IF x.k = "inf" THEN x.s < 0 /\ ~(y.k = "inf" /\ y.s < 0)
  ELSE IF y.k = "inf" THEN y.s > 0
  ELSE IF x.s # y.s THEN x.s < y.s
  ELSE IF x.s = 0 THEN FALSE
  ELSE IF x.s > 0 THEN VLess(x.e, y.e)
  ELSE VLess(y.e, x.e)

\* ------------------------------------------------------------------------
\* Helpers and constants of the component
\* ------------------------------------------------------------------------
\* Numeric literals of the source, evaluated once.
N1 == FromInt(1)

N2 == FromInt(2)

N4 == FromInt(4)

N20 == FromInt(20)

N1000 == FromInt(1000)

MmPerMil == Dec(254, 0 - 4)

MmPerOz == Dec(348, 0 - 4)

MilPerOz == Dec(1378, 0 - 3)

AreaFloor == Dec(1, 0 - 18)

M2PerMm2 == Dec(1, 0 - 6)

mmToMil(mm) == Div(mm, MmPerMil)

milToMm(mil) == Mul(mil, MmPerMil)

ozToMm(oz) == Mul(oz, MmPerOz)

IPC_B == Dec(44, 0 - 2)

IPC_C == Dec(725, 0 - 3)

K_EXT == Dec(48, 0 - 3)

K_INT == Dec(24, 0 - 3)

RHO_CU_20C == Dec(168, 0 - 10)

ALPHA_CU == Dec(39, 0 - 4)

K_CU == FromInt(385)

\* ------------------------------------------------------------------------
\* 1) IPC-2221 calculator
\* ------------------------------------------------------------------------
\* The calibration constants exchanged
IpcKSwapped(layer) == IF layer = "external" THEN K_INT ELSE K_EXT

\* const k = layer === "external" ? K_EXT : K_INT
IpcK(layer) == IF layer = "external" THEN K_EXT ELSE K_INT

\* current / k * Math.pow(tempRise, IPC_B): the divisor's parentheses lost
IpcAreaMisparen(current, k, tempRise) ==
  Pow(Mul(Div(current, k), Pow(tempRise, IPC_B)), Div(N1, IPC_C))

\* Math.pow(current / (k * Math.pow(tempRise, IPC_B)), 1 / IPC_C)
IpcArea(current, k, tempRise) ==
  Pow(Div(current, Mul(k, Pow(tempRise, IPC_B))), Div(N1, IPC_C))

TraceCompute(in) ==
  LET k == IpcK(in.layer)
      area_mils2 == IpcArea(in.current, k, in.tempRise)
      t_mm == ozToMm(in.thicknessOz)
      width_mil == Div(area_mils2, Mul(in.thicknessOz, MilPerOz))
      width_mm == milToMm(width_mil)
      crossSection_m2 == Mul(Div(t_mm, N1000), Div(width_mm, N1000))
      length_m == Div(in.length, N1000)
      R20 == Div(Mul(length_m, RHO_CU_20C), OrElse(crossSection_m2, AreaFloor))
      topTemp == Add(in.ambient, in.tempRise)
      R_T == Mul(R20, Add(N1, Mul(ALPHA_CU, Sub(topTemp, N20))))
      P20 == Mul(Mul(in.current, in.current), R20)
      P_T == Mul(Mul(in.current, in.current), R_T)
      J == Div(in.current, OrElse(crossSection_m2, AreaFloor))
  IN [width_mm |-> width_mm, width_mil |-> width_mil, area_mils2 |-> area_mils2,
      R20 |-> R20, R_T |-> R_T, P20 |-> P20, P_T |-> P_T, J |-> J]

TraceDefault ==
  [current |-> FromInt(30), tempRise |-> FromInt(10), layer |-> "external",
   thicknessOz |-> FromInt(2), length |-> FromInt(50), ambient |-> FromInt(25)]

\* The dependency list without ambient
TraceDepsNoAmbient(in) ==
  <<in.current, in.tempRise, in.layer, in.thicknessOz, in.length>>

TraceDeps(in) ==
  <<in.current, in.tempRise, in.layer, in.thicknessOz, in.length, in.ambient>>

\* useMemo(() => value, deps): the stored value unless a dependency changed
UseMemo(memo, deps, value) ==
  IF \A i \in 1..Len(deps) : SameValue(memo.deps[i], deps[i])
  THEN memo
  ELSE [deps |-> deps, value |-> value]

\* First render: useState's initial values, useMemo's first computation.
Ipc2221Mount ==
  [s |-> TraceDefault,
   memo |-> [deps |-> TraceDeps(TraceDefault), value |-> TraceCompute(TraceDefault)]]

\* A render of the component with state c.s
Ipc2221Calculator(c) ==
  [c EXCEPT !.memo = UseMemo(c.memo, TraceDeps(c.s), TraceCompute(c.s))]

\* ------------------------------------------------------------------------
\* 2) Copper resistance vs temperature
\* ------------------------------------------------------------------------
\* R2 referenced to 25 degrees instead of 20
CopperComputeRef25(in) ==
  LET A == Mul(Div(in.width, N1000), Div(in.thickness, N1000))
      L == Div(in.length, N1000)
      R1 == Div(Mul(Mul(in.rho20,
                        Add(N1, Mul(in.alpha, Sub(in.t1, N20)))), L),
                OrElse(A, AreaFloor))
      R2 == Div(Mul(Mul(in.rho20,
                        Add(N1, Mul(in.alpha, Sub(in.t2, FromInt(25))))), L),
                OrElse(A, AreaFloor))
  IN [A |-> A, L |-> L, R1 |-> R1, R2 |-> R2]

CopperCompute(in) ==
  LET A == Mul(Div(in.width, N1000), Div(in.thickness, N1000))
      L == Div(in.length, N1000)
      R1 == Div(Mul(Mul(in.rho20,
                        Add(N1, Mul(in.alpha, Sub(in.t1, N20)))), L),
                OrElse(A, AreaFloor))
      R2 == Div(Mul(Mul(in.rho20,
                        Add(N1, Mul(in.alpha, Sub(in.t2, N20)))), L),
                OrElse(A, AreaFloor))
  IN [A |-> A, L |-> L, R1 |-> R1, R2 |-> R2]

CopperDefault ==
  [rho20 |-> RHO_CU_20C, alpha |-> ALPHA_CU, t1 |-> FromInt(20), t2 |-> FromInt(80),
   length |-> FromInt(100), width |-> FromInt(3), thickness |-> Dec(70, 0 - 3)]

CopperDeps(in) ==
  <<in.rho20, in.alpha, in.t1, in.t2, in.length, in.width, in.thickness>>

CopperTempMount ==
  [s |-> CopperDefault,
   memo |-> [deps |-> CopperDeps(CopperDefault), value |-> CopperCompute(CopperDefault)]]

CopperTempCalculator(c) ==
  [c EXCEPT !.memo = UseMemo(c.memo, CopperDeps(c.s), CopperCompute(c.s))]

\* ------------------------------------------------------------------------
\* 3) Thermal via array
\* ------------------------------------------------------------------------
\* Do = hole + plate: the plating counted on one side only
ViaComputeOnePlate(in) ==
  LET Do == Add(in.hole, in.plate)
      Di == in.hole
      A_via_mm2 == Mul(Div(PI, N4), Sub(Mul(Do, Do), Mul(Di, Di)))
      A_total_m2 == Mul(Mul(A_via_mm2, in.n), M2PerMm2)
      L == Div(in.boardT, N1000)
      Rth_cond == Div(L, Mul(in.kCu, OrElse(A_total_m2, AreaFloor)))
  IN [Do |-> Do, Di |-> Di, A_via_mm2 |-> A_via_mm2, A_total_m2 |-> A_total_m2,
      Rth_cond |-> Rth_cond]

ViaCompute(in) ==
  LET Do == Add(in.hole, Mul(N2, in.plate))
      Di == in.hole
      A_via_mm2 == Mul(Div(PI, N4), Sub(Mul(Do, Do), Mul(Di, Di)))
      A_total_m2 == Mul(Mul(A_via_mm2, in.n), M2PerMm2)
      L == Div(in.boardT, N1000)
      Rth_cond == Div(L, Mul(in.kCu, OrElse(A_total_m2, AreaFloor)))
  IN [Do |-> Do, Di |-> Di, A_via_mm2 |-> A_via_mm2, A_total_m2 |-> A_total_m2,
      Rth_cond |-> Rth_cond]

ViaDefault ==
  [n |-> FromInt(16), hole |-> Dec(3, 0 - 1), plate |-> Dec(25, 0 - 3),
   boardT |-> Dec(16, 0 - 1), kCu |-> K_CU]

ViaDeps(in) == <<in.n, in.hole, in.plate, in.boardT, in.kCu>>

ThermalViaMount ==
  [s |-> ViaDefault,
   memo |-> [deps |-> ViaDeps(ViaDefault), value |-> ViaCompute(ViaDefault)]]

ThermalViaCalculator(c) ==
  [c EXCEPT !.memo = UseMemo(c.memo, ViaDeps(c.s), ViaCompute(c.s))]

\* ------------------------------------------------------------------------
\* Form fields
\* ------------------------------------------------------------------------
\* The text of an <input type="number">: empty (nothing or no number typed),
\* or the decimal m * 10^e.
EmptyText == [empty |-> TRUE, m |-> 0, e |-> 0]

Txt(m, e) == [empty |-> FALSE, m |-> m, e |-> e]

\* parseFloat(text) || 0
parseFloatOrZero(t) == IF t.empty THEN Zero ELSE Dec(t.m, t.e)

parseFloat(t) == IF t.empty THEN NaN ELSE Dec(t.m, t.e)

\* A setter that replaces the whole form state by the defaults and the one field
NumberFieldIpcReset(c, f, t) ==
  Ipc2221Calculator([c EXCEPT !.s = [TraceDefault EXCEPT ![f] = parseFloat(t)]])

\* NumberField's onChange for field f of a component: the setter of useState,
\* then the render it schedules.
NumberFieldIpc(c, f, t) == Ipc2221Calculator([c EXCEPT !.s[f] = parseFloat(t)])

\* SelectField's onChange (the Layer select)
SelectFieldIpc(c, v) == Ipc2221Calculator([c EXCEPT !.s.layer = v])

NumberFieldCopper(c, f, t) == CopperTempCalculator([c EXCEPT !.s[f] = parseFloat(t)])

NumberFieldVia(c, f, t) == ThermalViaCalculator([c EXCEPT !.s[f] = parseFloat(t)])

LayerOptions == {"external", "internal"}

\* The texts the model types into each field (the default among them).
IpcTexts ==
  [current |-> {EmptyText, Txt(0 - 1, 0), Txt(0, 0), Txt(2, 0), Txt(30, 0)},
   tempRise |-> {EmptyText, Txt(0 - 5, 0), Txt(0, 0), Txt(10, 0), Txt(20, 0)},
   thicknessOz |-> {Txt(0, 0), Txt(1, 0), Txt(2, 0)},
   length |-> {Txt(0, 0), Txt(50, 0)},
   ambient |-> {EmptyText, Txt(25, 0), Txt(85, 0)}]

CopperTexts ==
  [rho20 |-> {EmptyText, Txt(168, 0 - 10)},
   alpha |-> {Txt(0, 0), Txt(39, 0 - 4)},
   t1 |-> {EmptyText, Txt(20, 0), Txt(80, 0)},
   t2 |-> {EmptyText, Txt(20, 0), Txt(80, 0)},
   length |-> {Txt(0, 0), Txt(100, 0)},
   width |-> {Txt(0, 0), Txt(3, 0)},
   thickness |-> {Txt(0, 0), Txt(70, 0 - 3)}]

ViaTexts ==
  [n |-> {EmptyText, Txt(0 - 1, 0), Txt(0, 0), Txt(2, 0), Txt(16, 0)},
   hole |-> {EmptyText, Txt(0, 0), Txt(3, 0 - 1)},
   plate |-> {Txt(0, 0), Txt(25, 0 - 3)},
   boardT |-> {Txt(0, 0), Txt(16, 0 - 1)},
   kCu |-> {Txt(0, 0), Txt(385, 0)}]

\* ------------------------------------------------------------------------
\* The window's page and the shell
\* ------------------------------------------------------------------------
\* PcbThermalToolkit mounted in a freshly loaded page
PcbThermalToolkit ==
  [ipc |-> Ipc2221Mount, copper |-> CopperTempMount, via |-> ThermalViaMount]

\* The environments the model runs the app in: process.platform and
\* app.isPackaged.
Environments ==
  {[platform |-> "darwin", isPackaged |-> FALSE],
   [platform |-> "linux", isPackaged |-> TRUE],
   [platform |-> "win32", isPackaged |-> TRUE]}

VARIABLES
  platform,         \* process.platform
  isDev,            \* !app.isPackaged
  appReady,         \* app.whenReady() has resolved
  activateHandler,  \* the 'activate' listener is registered
  quit,             \* app.quit() was called
  windows           \* BrowserWindow.getAllWindows(): each window's page

vars == <<platform, isDev, appReady, activateHandler, quit, windows>>

Init ==
  /\ \E env \in Environments :
       /\ platform = env.platform
       /\ isDev = ~env.isPackaged
  /\ appReady = FALSE
  /\ activateHandler = FALSE
  /\ quit = FALSE
  /\ windows = <<>>

\* createWindow(): a new BrowserWindow that loads the page
createWindow(ws) ==
  Append(ws, [url |-> IF isDev THEN "http://localhost:5173" ELSE "../dist/index.html",
              devTools |-> isDev,
              page |-> PcbThermalToolkit])

\* app.whenReady().then(...)
WhenReady ==
  /\ ~appReady /\ ~quit
  /\ appReady' = TRUE
  /\ windows' = createWindow(windows)
  /\ activateHandler' = TRUE
  /\ UNCHANGED <<platform, isDev, quit>>

\* The listener without its test of the open windows
OnActivateAlways(ws) == createWindow(ws)

\* The 'activate' listener, if registered
OnActivate(ws) == IF Len(ws) = 0 THEN createWindow(ws) ELSE ws

\* An 'activate' event
Activate ==
  /\ ~quit
  /\ windows' = (IF activateHandler THEN OnActivate(windows) ELSE windows)
  /\ UNCHANGED <<platform, isDev, appReady, activateHandler, quit>>

\* The 'window-all-closed' listener: whether it calls app.quit()
OnWindowAllClosed == platform # "darwin"

\* The user closes window w; closing the last one emits 'window-all-closed'.
CloseWindow ==
  /\ ~quit
  /\ \E w \in 1..Len(windows) :
       /\ windows' = SubSeq(windows, 1, w - 1) \o SubSeq(windows, w + 1, Len(windows))
       /\ quit' = (Len(windows) = 1 /\ OnWindowAllClosed)
  /\ UNCHANGED <<platform, isDev, appReady, activateHandler>>

\* Number of fields of a page that differ from their defaults.
Dirty(pg) ==
  Cardinality({f \in DOMAIN TraceDefault : pg.ipc.s[f] # TraceDefault[f]})
  + Cardinality({f \in DOMAIN CopperDefault : pg.copper.s[f] # CopperDefault[f]})
  + Cardinality({f \in DOMAIN ViaDefault : pg.via.s[f] # ViaDefault[f]})

NoLimit ==
  Cardinality(DOMAIN TraceDefault) + Cardinality(DOMAIN CopperDefault)
  + Cardinality(DOMAIN ViaDefault)

\* Whether the model lets component comp's field f of page pg take value v.
WithinLimit(pg, comp, f, v, limit) == Dirty([pg EXCEPT ![comp].s[f] = v]) <= limit

SetPage(w, pg) ==
  /\ windows' = [windows EXCEPT ![w].page = pg]
  /\ UNCHANGED <<platform, isDev, appReady, activateHandler, quit>>

\* The user edits a field of the IPC-2221 form of window w.
EditIpc(limit) ==
  /\ ~quit
  /\ \E w \in 1..Len(windows) :
       \/ \E f \in DOMAIN IpcTexts : \E t \in IpcTexts[f] :
            /\ WithinLimit(windows[w].page, "ipc", f, parseFloat(t), limit)
            /\ SetPage(w, [windows[w].page EXCEPT !.ipc = NumberFieldIpc(@, f, t)])
       \/ \E v \in LayerOptions :
            /\ WithinLimit(windows[w].page, "ipc", "layer", v, limit)
            /\ SetPage(w, [windows[w].page EXCEPT !.ipc = SelectFieldIpc(@, v)])

EditCopper(limit) ==
  /\ ~quit
  /\ \E w \in 1..Len(windows) : \E f \in DOMAIN CopperTexts : \E t \in CopperTexts[f] :
       /\ WithinLimit(windows[w].page, "copper", f, parseFloat(t), limit)
       /\ SetPage(w, [windows[w].page EXCEPT !.copper = NumberFieldCopper(@, f, t)])

EditVia(limit) ==
  /\ ~quit
  /\ \E w \in 1..Len(windows) : \E f \in DOMAIN ViaTexts : \E t \in ViaTexts[f] :
       /\ WithinLimit(windows[w].page, "via", f, parseFloat(t), limit)
       /\ SetPage(w, [windows[w].page EXCEPT !.via = NumberFieldVia(@, f, t)])

Shell == WhenReady \/ Activate \/ CloseWindow

Next == Shell \/ EditIpc(MaxDirty) \/ EditCopper(MaxDirty) \/ EditVia(MaxDirty)

Spec == Init /\ [][Next]_vars

NextIpc == Shell \/ EditIpc(NoLimit)

SpecIpc == Init /\ [][NextIpc]_vars

NextCopper == Shell \/ EditCopper(NoLimit)

SpecCopper == Init /\ [][NextCopper]_vars

NextVia == Shell \/ EditVia(NoLimit)

SpecVia == Init /\ [][NextVia]_vars

\* ------------------------------------------------------------------------
\* Properties
\* ------------------------------------------------------------------------
Pages == {windows[w].page : w \in 1..Len(windows)}

IsPos(x) == x.k = "fin" /\ x.s = 1

IsNeg(x) == x.k = "fin" /\ x.s = 0 - 1

Leq(x, y) == x = y \/ Less(x, y)

AllFinite(in, fields) == \A f \in fields : IsFinite(in[f])

\* The value a typed text denotes: not a number when no number was typed.
ValueOf(t) == IF t.empty THEN NaN ELSE Mul(FromInt(t.m), Fin(1, VNorm([p \in {2, 5} |-> t.e * U])))

Amps == {FromInt(i) : i \in 1..MaxAmps}

Rises == {FromInt(10 * i) : i \in 1..MaxRise}

ViaCounts == {FromInt(i) : i \in 1..MaxVias}

\* Via inputs with a zero via count or zero plating, the others positive.
ViaZeroAreaInput(in) ==
  /\ IsZero(in.n) \/ IsZero(in.plate)
  /\ IsZero(in.n) \/ IsPos(in.n)
  /\ IsZero(in.plate) \/ IsPos(in.plate)
  /\ IsPos(in.hole) /\ IsPos(in.boardT) /\ IsPos(in.kCu)

\* C1: in the thermal-via calculator, when the via count or the plating
\* thickness is zero and the other inputs are positive, the total copper area
\* is zero and the displayed resistance is the finite positive number
\* (boardT / 1000) / (kCu * 1e-18): the floor replaces the zero area.
C1_ViaZeroAreaUsesFloor ==
  \A pg \in Pages :
    LET in == pg.via.s
        r == pg.via.memo.value
    IN ViaZeroAreaInput(in) =>
         /\ IsZero(r.A_total_m2)
         /\ IsPos(r.Rth_cond)
         /\ r.Rth_cond = Div(Div(in.boardT, N1000), Mul(in.kCu, AreaFloor))

C1_Witness ==
  \E pg \in Pages :
    /\ ViaZeroAreaInput(pg.via.s)
    /\ IsZero(pg.via.s.n)
    /\ IsPos(pg.via.memo.value.Rth_cond)

\* C2: in every reachable state each calculator's displayed result is the
\* computation applied to the current values of its fields, whatever edits
\* led there.
C2_ResultIsComputeOfInput ==
  \A pg \in Pages :
    /\ pg.ipc.memo.value = TraceCompute(pg.ipc.s)
    /\ pg.copper.memo.value = CopperCompute(pg.copper.s)
    /\ pg.via.memo.value = ViaCompute(pg.via.s)

C2_Witness ==
  \E pg \in Pages :
    /\ pg.ipc.s.ambient # TraceDefault.ambient
    /\ pg.copper.s.t2 # CopperDefault.t2
    /\ pg.ipc.memo.value # Ipc2221Mount.memo.value
    /\ pg.copper.memo.value # CopperTempMount.memo.value

TracePositive(in) == IsPos(in.current) /\ IsPos(in.tempRise) /\ IsPos(in.thicknessOz)

\* r1's area and widths are at most r2's
TraceNoWider(r1, r2) ==
  /\ Leq(r1.area_mils2, r2.area_mils2)
  /\ Leq(r1.width_mil, r2.width_mil)
  /\ Leq(r1.width_mm, r2.width_mm)

\* C3: for positive current, allowed rise and copper weight, the required
\* area and width do not decrease when the current alone is raised and do not
\* increase when the allowed rise alone is raised.
C3_WidthMonotone ==
  \A pg \in Pages :
    LET in == pg.ipc.s
        r == pg.ipc.memo.value
    IN TracePositive(in) =>
         /\ \A c \in Amps :
              LET rc == TraceCompute([in EXCEPT !.current = c])
              IN /\ Less(in.current, c) => TraceNoWider(r, rc)
                 /\ Less(c, in.current) => TraceNoWider(rc, r)
         /\ \A t \in Rises :
              LET rt == TraceCompute([in EXCEPT !.tempRise = t])
              IN /\ Less(in.tempRise, t) => TraceNoWider(rt, r)
                 /\ Less(t, in.tempRise) => TraceNoWider(r, rt)

C3_Witness ==
  \E pg \in Pages :
    /\ TracePositive(pg.ipc.s)
    /\ pg.ipc.s.layer = "internal"
    /\ \E c \in Amps : Less(pg.ipc.s.current, c)
    /\ \E c \in Amps : Less(c, pg.ipc.s.current)
    /\ \E t \in Rises : Less(pg.ipc.s.tempRise, t)
    /\ IsPos(pg.ipc.memo.value.width_mm)

\* C4: in the resistance-vs-temperature calculator, when T1 and T2 hold the
\* same value the two displayed resistances are the same value.
C4_SameTempSameResistance ==
  \A pg \in Pages :
    SameValue(pg.copper.s.t1, pg.copper.s.t2) =>
      SameValue(pg.copper.memo.value.R1, pg.copper.memo.value.R2)

C4_Witness ==
  \E pg \in Pages :
    /\ pg.copper.s.t1 = FromInt(80)
    /\ pg.copper.s.t2 = FromInt(80)
    /\ IsZero(pg.copper.s.width)
    /\ IsPos(pg.copper.memo.value.R1)

\* C5: with a total copper area that is a nonzero number, the thermal-via
\* result is Do = hole + 2 plate, A = pi/4 (Do^2 - hole^2),
\* total = A * n * 1e-6 and R = (boardT / 1000) / (kCu * total); for the
\* default inputs Do = 0.35 and A = pi * 13/1600; and with n >= 1,
\* n * R is the same for every via count.
C5_ViaFormula ==
  \A pg \in Pages :
    LET in == pg.via.s
        r == pg.via.memo.value
    IN /\ (~IsNaN(r.A_total_m2) /\ ~IsZero(r.A_total_m2)) =>
            /\ r.Do = Add(in.hole, Mul(N2, in.plate))
            /\ r.A_via_mm2 = Mul(Div(PI, N4), Sub(Mul(r.Do, r.Do), Mul(in.hole, in.hole)))
            /\ r.A_total_m2 = Mul(Mul(r.A_via_mm2, in.n), M2PerMm2)
            /\ r.Rth_cond = Div(Div(in.boardT, N1000), Mul(in.kCu, r.A_total_m2))
            /\ IsPos(in.n) =>
                 \A n2 \in ViaCounts :
                   Mul(n2, ViaCompute([in EXCEPT !.n = n2]).Rth_cond) = Mul(in.n, r.Rth_cond)
       /\ in = ViaDefault =>
            /\ r.Do = Dec(35, 0 - 2)
            /\ r.A_via_mm2 = Mul(PI, Div(FromInt(13), FromInt(1600)))
            /\ r.Rth_cond = Div(Dec(16, 0 - 4),
                                Mul(FromInt(385), Mul(Mul(FromInt(16), r.A_via_mm2), Dec(1, 0 - 6))))

C5_Witness ==
  \E pg \in Pages :
    /\ pg.via.s.n = FromInt(2)
    /\ IsPos(pg.via.memo.value.A_total_m2)
    /\ IsPos(pg.via.memo.value.Rth_cond)
    /\ pg.via.s.boardT = ViaDefault.boardT

\* The cross-section the IPC-2221 computation divides by, from the displayed width
TraceCrossSection(in, r) == Mul(Div(ozToMm(in.thicknessOz), N1000), Div(r.width_mm, N1000))

Falsy(x) == IsZero(x) \/ IsNaN(x)

\* C6: in the trace-width and resistance-vs-temperature calculators, when
\* the cross-section is zero or not a number and the inputs are finite, every
\* division by the area divides by 1e-18, and the resistances, power losses
\* and current density are finite.
C6_ZeroAreaUsesFloor ==
  \A pg \in Pages :
    /\ LET in == pg.ipc.s
           r == pg.ipc.memo.value
       IN (/\ Falsy(TraceCrossSection(in, r))
           /\ AllFinite(in, {"current", "tempRise", "thicknessOz", "length", "ambient"})) =>
            /\ r.R20 = Div(Mul(Div(in.length, N1000), RHO_CU_20C), AreaFloor)
            /\ r.J = Div(in.current, AreaFloor)
            /\ IsFinite(r.R20) /\ IsFinite(r.R_T) /\ IsFinite(r.P20)
            /\ IsFinite(r.P_T) /\ IsFinite(r.J)
    /\ LET in == pg.copper.s
           r == pg.copper.memo.value
       IN (Falsy(r.A) /\ AllFinite(in, DOMAIN in)) =>
            /\ r.R1 = Div(Mul(Mul(in.rho20, Add(N1, Mul(in.alpha, Sub(in.t1, N20)))),
                              Div(in.length, N1000)), AreaFloor)
            /\ r.R2 = Div(Mul(Mul(in.rho20, Add(N1, Mul(in.alpha, Sub(in.t2, N20)))),
                              Div(in.length, N1000)), AreaFloor)
            /\ IsFinite(r.R1) /\ IsFinite(r.R2)

C6_Witness ==
  \E pg \in Pages :
    /\ IsZero(pg.ipc.s.thicknessOz)
    /\ IsPos(pg.ipc.s.current)
    /\ IsNaN(TraceCrossSection(pg.ipc.s, pg.ipc.memo.value))
    /\ IsPos(pg.ipc.memo.value.R20)
    /\ IsZero(pg.copper.s.thickness)
    /\ IsPos(pg.copper.memo.value.R2)

\* C7: no edit is rejected or clamped: whatever is typed into a numeric
\* field (a negative number, zero, or nothing that parses), the field then
\* holds exactly that value and the result is the computation on it; a
\* negative via count shows a negative thermal resistance and a current that
\* is not a number shows a width that is not a number.  An edit reads only
\* its own form, so each form's edits are tried from every reachable state of
\* that form, on the pages whose other two forms are as mounted.
C7_EditsNotIntercepted ==
  \A pg \in Pages :
    /\ (pg.copper = CopperTempMount /\ pg.via = ThermalViaMount) =>
         \A f \in DOMAIN IpcTexts : \A t \in IpcTexts[f] :
           LET c == NumberFieldIpc(pg.ipc, f, t)
           IN /\ c.s = [pg.ipc.s EXCEPT ![f] = ValueOf(t)]
              /\ c.memo.value = TraceCompute(c.s)
    /\ (pg.ipc = Ipc2221Mount /\ pg.via = ThermalViaMount) =>
         \A f \in DOMAIN CopperTexts : \A t \in CopperTexts[f] :
           LET c == NumberFieldCopper(pg.copper, f, t)
           IN /\ c.s = [pg.copper.s EXCEPT ![f] = ValueOf(t)]
              /\ c.memo.value = CopperCompute(c.s)
    /\ (pg.ipc = Ipc2221Mount /\ pg.copper = CopperTempMount) =>
         \A f \in DOMAIN ViaTexts : \A t \in ViaTexts[f] :
           LET c == NumberFieldVia(pg.via, f, t)
           IN /\ c.s = [pg.via.s EXCEPT ![f] = ValueOf(t)]
              /\ c.memo.value = ViaCompute(c.s)
    /\ IsNaN(pg.ipc.s.current) =>
         IsNaN(pg.ipc.memo.value.width_mm) /\ IsNaN(pg.ipc.memo.value.width_mil)
    /\ (/\ IsNeg(pg.via.s.n)
        /\ IsPos(pg.via.s.hole) /\ IsPos(pg.via.s.plate)
        /\ IsPos(pg.via.s.boardT) /\ IsPos(pg.via.s.kCu)) =>
         IsNeg(pg.via.memo.value.Rth_cond)

C7_Witness ==
  \E pg \in Pages :
    /\ IsNeg(pg.via.s.n)
    /\ IsNeg(pg.via.memo.value.Rth_cond)
    /\ IsNaN(pg.ipc.s.current)
    /\ IsNaN(pg.ipc.memo.value.width_mm)

\* The fields of a form state in which s1 and s2 differ
Changed(s1, s2) == {f \in DOMAIN s1 : s1[f] # s2[f]}

\* A step that keeps the windows changes at most one calculator of a page,
\* and at most one field of it.
FrameStep ==
  Len(windows') = Len(windows) =>
    \A w \in 1..Len(windows) :
      LET a == windows[w].page
          b == windows'[w].page
          touched == {comp \in {"ipc", "copper", "via"} : a[comp] # b[comp]}
      IN /\ Cardinality(touched) <= 1
         /\ \A comp \in touched : Cardinality(Changed(a[comp].s, b[comp].s)) = 1

\* The edits of each form: a field and a text
IpcPairs == UNION {{<<f, t>> : t \in IpcTexts[f]} : f \in DOMAIN IpcTexts}

CopperPairs == UNION {{<<f, t>> : t \in CopperTexts[f]} : f \in DOMAIN CopperTexts}

ViaPairs == UNION {{<<f, t>> : t \in ViaTexts[f]} : f \in DOMAIN ViaTexts}

OnIpc(pg, e) == [pg EXCEPT !.ipc = NumberFieldIpc(@, e[1], e[2])]

OnCopper(pg, e) == [pg EXCEPT !.copper = NumberFieldCopper(@, e[1], e[2])]

OnVia(pg, e) == [pg EXCEPT !.via = NumberFieldVia(@, e[1], e[2])]

\* Edits to different calculators give the same page in either order, from
\* every page where both orders stay within the explored edits.
EditsCommute ==
  \A pg \in Pages :
    Dirty(pg) + 2 <= MaxDirty =>
      LET ipcDone == [a \in IpcPairs |-> OnIpc(pg, a)]
          copperDone == [a \in CopperPairs |-> OnCopper(pg, a)]
          viaDone == [a \in ViaPairs |-> OnVia(pg, a)]
      IN /\ \A a \in IpcPairs : \A b \in CopperPairs :
              OnCopper(ipcDone[a], b) = OnIpc(copperDone[b], a)
         /\ \A a \in IpcPairs : \A b \in ViaPairs :
              OnVia(ipcDone[a], b) = OnIpc(viaDone[b], a)
         /\ \A a \in CopperPairs : \A b \in ViaPairs :
              OnVia(copperDone[a], b) = OnCopper(viaDone[b], a)
         /\ \A v \in LayerOptions :
              LET layerDone == [pg EXCEPT !.ipc = SelectFieldIpc(@, v)]
              IN /\ \A b \in CopperPairs :
                      OnCopper(layerDone, b)
                        = [copperDone[b] EXCEPT !.ipc = SelectFieldIpc(@, v)]
                 /\ \A b \in ViaPairs :
                      OnVia(layerDone, b) = [viaDone[b] EXCEPT !.ipc = SelectFieldIpc(@, v)]

\* C8: an edit replaces one field of one calculator's input and leaves that
\* input's other fields and the other two calculators' inputs and results
\* unchanged; edits to different calculators commute.
C8_EditFrame == [][FrameStep]_vars /\ []EditsCommute

C8_Witness ==
  \E pg \in Pages :
    /\ Cardinality(Changed(pg.ipc.s, TraceDefault)) = 1
    /\ Cardinality(Changed(pg.via.s, ViaDefault)) = 1
    /\ pg.copper = CopperTempMount

\* C9: the calibration constant is 0.048 for the external layer and 0.024
\* for any other value, and with positive current, allowed rise and copper
\* weight the internal layer needs strictly more area and width than the
\* external layer.
C9_InternalNeedsMore ==
  /\ IpcK("external") = Dec(48, 0 - 3)
  /\ \A l \in {"internal", "External", ""} : IpcK(l) = Dec(24, 0 - 3)
  /\ \A pg \in Pages :
       LET in == pg.ipc.s
           r == pg.ipc.memo.value
           ext == IF in.layer = "external" THEN r
                  ELSE TraceCompute([in EXCEPT !.layer = "external"])
           int == IF in.layer = "external" THEN TraceCompute([in EXCEPT !.layer = "internal"])
                  ELSE r
       IN TracePositive(in) =>
            /\ Less(ext.area_mils2, int.area_mils2)
            /\ Less(ext.width_mil, int.width_mil)
            /\ Less(ext.width_mm, int.width_mm)

C9_Witness ==
  \E pg \in Pages :
    /\ pg.ipc.s.layer = "internal"
    /\ TracePositive(pg.ipc.s)
    /\ pg.ipc.s.current # TraceDefault.current
    /\ Less(Ipc2221Mount.memo.value.width_mm,
            TraceCompute([pg.ipc.s EXCEPT !.current = TraceDefault.current]).width_mm)

\* Shell steps: a window is created only when none is open; closing the last
\* window quits exactly off darwin; on darwin an activate with no window
\* open, after ready, opens exactly one.
ShellStep ==
  /\ Len(windows') > Len(windows) => Len(windows) = 0 /\ Len(windows') = 1
  /\ (Len(windows) = 1 /\ Len(windows') = 0) => (quit' <=> platform # "darwin")
  /\ (Len(windows') >= Len(windows)) => quit' = quit
  /\ (Activate /\ appReady /\ Len(windows) = 0) => Len(windows') = 1
  /\ quit => UNCHANGED vars

\* C10: no window exists before the ready event, at most one window is open
\* at any time, activate creates a window only when none is open, closing the
\* last window quits the app except on darwin, where a later activate opens
\* exactly one window.
C10_ShellWindows ==
  /\ [](~appReady => Len(windows) = 0)
  /\ [](Len(windows) <= 1)
  /\ [](quit => Len(windows) = 0 /\ platform # "darwin")
  /\ [][ShellStep]_vars

C10_Witness ==
  /\ platform = "darwin"
  /\ appReady
  /\ ~quit
  /\ Len(windows) = 0

====
